---- MODULE Spec2Model ----
(***************************************************************************)
(* A model of parser.go: NewAppParser and the helpers it calls             *)
(* (parseApkFile, parseAndroidManifest, parseApkIconAndLabel, getApkMd5,   *)
(* getSignature).  Go strings are sequences of one-character strings, so   *)
(* that prefix/suffix tests, splitting, cutting, replacing, lower-casing   *)
(* and decimal parsing are computed, character by character, the way the   *)
(* library functions the code calls compute them.                          *)
(***************************************************************************)
EXTENDS Integers, Sequences, FiniteSets, TLC

VARIABLES
    name, keyToolPath, isIcon,      \* the arguments of NewAppParser
    fs,                             \* what the file system answers: os.Open, Stat, zip.NewReader, md5
    entries,                        \* reader.File: the archive's entry names, in directory order
    doc,                            \* the manifest entry: how far its decoding gets, and its content
    tool,                           \* the certificate tool: how Run ends, and what it prints
    res,                            \* the resource package: openFile, icon, label outcomes
    pc,                             \* position in NewAppParser
    i,                              \* index of the range loop over reader.File
    xmlFile, supportOS64, supportOS32, hasSoFile,   \* locals of NewAppParser
    info,                           \* *AppInfo being filled (Nil before parseApkFile returns it)
    icon, label,                    \* results of parseApkIconAndLabel
    handles,                        \* handles currently open: "file", "rc", "pkg"
    ret,                            \* what NewAppParser returned: [info, err]
    steps                           \* history: the steps this run has executed

vars == <<name, keyToolPath, isIcon, fs, entries, doc, tool, res, pc, i, xmlFile,
          supportOS64, supportOS32, hasSoFile, info, icon, label, handles, ret, steps>>

inputs == <<name, keyToolPath, isIcon, fs, entries, doc, tool, res>>

locals == <<xmlFile, supportOS64, supportOS32, hasSoFile>>

\* the nil pointer / nil interface value
Nil == [nil |-> TRUE]

NoErr == "nil"

(***************************************************************************)
(* Bounds of the model.                                                    *)
(***************************************************************************)
MaxEntries == 3     \* entries in the archive directory

MaxPerms == 3       \* child elements of the manifest root

MaxCode == 12       \* largest version code written out in decimal

MaxBody == 2        \* characters after the label on a tool output line

(***************************************************************************)
(* String constants of the code.                                           *)
(***************************************************************************)
androidExt == <<".","a","p","k">>

ManifestName == <<"A","n","d","r","o","i","d","M","a","n","i","f","e","s","t",".","x","m","l">>

SoSuffix == <<".","s","o">>

Lib64Prefix == <<"l","i","b","/","a","r","m","6","4","-","v","8","a">>

Lib32Prefix == <<"l","i","b","/","a","r","m","e","a","b","i">>

LabelMD5 == <<"M","D","5",":">>

LabelSHA1 == <<"S","H","A","1",":">>

LabelSHA256 == <<"S","H","A","2","5","6",":">>

ErrUnknownPlatform == "unknown platform"

ErrNoManifest == "AndroidManifest.xml not found"

(***************************************************************************)
(* Library functions on strings, as the Go library computes them.          *)
(***************************************************************************)
\* strings.HasPrefix
HasPrefix(s, p) == Len(s) >= Len(p) /\ SubSeq(s, 1, Len(p)) = p

\* strings.HasSuffix
HasSuffix(s, p) == Len(s) >= Len(p) /\ SubSeq(s, Len(s) - Len(p) + 1, Len(s)) = p

\* strings.Index + 1: the first position where sub occurs in s, 0 when it does not
IndexOf(s, sub) ==
    LET hits == {k \in 1..(Len(s) - Len(sub) + 1) : SubSeq(s, k, k + Len(sub) - 1) = sub}
    IN  IF hits = {} THEN 0 ELSE CHOOSE k \in hits : \A m \in hits : k <= m

\* strings.Contains
Contains(s, sub) == IndexOf(s, sub) # 0

\* strings.Cut, second result: the text after the first occurrence of sep ("" when absent)
CutAfter(s, sep) ==
    LET k == IndexOf(s, sep)
    IN  IF k = 0 THEN <<>> ELSE SubSeq(s, k + Len(sep), Len(s))

\* strings.Replace(s, c, "", -1) for a one-character c: every c removed
RemoveAll(s, c) == SelectSeq(s, LAMBDA x : x # c)

\* strings.Split(s, c) for a one-character separator: always at least one field
Split(s, c) ==
    LET seps == {k \in 1..Len(s) : s[k] = c}
        n == Cardinality(seps)
        sepAt(j) == CHOOSE k \in seps : Cardinality({m \in seps : m < k}) = j - 1
        first(j) == IF j = 1 THEN 1 ELSE sepAt(j - 1) + 1
        last(j) == IF j = n + 1 THEN Len(s) ELSE sepAt(j) - 1
    IN  [j \in 1..(n + 1) |-> SubSeq(s, first(j), last(j))]

UpperLetters == <<"A","B","C","D","E","F","G","H","I","J","K","L","M",
                  "N","O","P","Q","R","S","T","U","V","W","X","Y","Z">>

LowerLetters == <<"a","b","c","d","e","f","g","h","i","j","k","l","m",
                  "n","o","p","q","r","s","t","u","v","w","x","y","z">>

LowerChar(c) ==
    IF \E k \in 1..26 : UpperLetters[k] = c
    THEN LowerLetters[CHOOSE k \in 1..26 : UpperLetters[k] = c]
    ELSE c

\* strings.ToLower
ToLower(s) == [k \in 1..Len(s) |-> LowerChar(s[k])]

Digits == <<"0","1","2","3","4","5","6","7","8","9">>

IsDigit(c) == \E d \in 1..10 : Digits[d] = c

DigitVal(c) == (CHOOSE d \in 1..10 : Digits[d] = c) - 1

RECURSIVE DecValue(_, _)
DecValue(s, acc) ==
    IF s = <<>> THEN acc ELSE DecValue(Tail(s), acc * 10 + DigitVal(Head(s)))

\* strconv.Atoi with its error dropped (versionCode, _ := ...): an optional sign and
\* decimal digits give the value; anything else gives 0.  (Shorter than 19 characters,
\* so the value never leaves the range of int.)
Atoi(s) ==
    IF s = <<>> THEN 0
    ELSE LET signed == Head(s) \in {"+", "-"}
             body   == IF signed THEN Tail(s) ELSE s
         IN  IF body = <<>> \/ \E k \in 1..Len(body) : ~IsDigit(body[k]) THEN 0
             ELSE IF Head(s) = "-" THEN 0 - DecValue(body, 0) ELSE DecValue(body, 0)

\* the name os.(*File).Stat reports: the path's last element, trailing slashes dropped
RECURSIVE TrimSlashes(_)
TrimSlashes(p) ==
    IF Len(p) > 1 /\ p[Len(p)] = "/" THEN TrimSlashes(SubSeq(p, 1, Len(p) - 1)) ELSE p

BaseName(p) ==
    LET q == TrimSlashes(p)
        slashes == {k \in 1..Len(q) : q[k] = "/"}
        last == IF slashes = {} THEN 0 ELSE CHOOSE k \in slashes : \A m \in slashes : m <= k
    IN  IF q = <<"/">> THEN q ELSE SubSeq(q, last + 1, Len(q))

\* filepath.Ext: from the last dot of the last element on; "" when it has no dot
Ext(p) ==
    LET stop == {k \in 1..Len(p) : p[k] = "/" \/ p[k] = "."}
        last == IF stop = {} THEN 0 ELSE CHOOSE k \in stop : \A m \in stop : m <= k
    IN  IF last = 0 \/ p[last] = "/" THEN <<>> ELSE SubSeq(p, last, Len(p))

(***************************************************************************)
(* getSignature (parser.go 208-255).                                       *)
(***************************************************************************)
\* lines 245-254: spaces removed, colons removed, lower-cased
Normalize(s) == ToLower(RemoveAll(RemoveAll(s, " "), ":"))

\* lines 230-243: the loop over the output lines; the first label a line contains
\* decides which result the line sets, and a later line overwrites an earlier one
RECURSIVE ScanLines(_, _)
ScanLines(lines, r) ==
    IF lines = <<>> THEN r
    ELSE LET line == Head(lines)
         IN  ScanLines(Tail(lines),
                 IF Contains(line, LabelMD5)
                 THEN [r EXCEPT !.md5 = CutAfter(line, LabelMD5)]
                 ELSE IF Contains(line, LabelSHA1)
                 THEN [r EXCEPT !.sha1 = CutAfter(line, LabelSHA1)]
                 ELSE IF Contains(line, LabelSHA256)
                 THEN [r EXCEPT !.sha256 = CutAfter(line, LabelSHA256)]
                 ELSE r)

NoDigests == [md5 |-> <<>>, sha1 |-> <<>>, sha256 |-> <<>>]

\* lines 227-254: what getSignature makes of the tool's standard output
ParseDigests(output) ==
    LET r == ScanLines(Split(output, "\n"), NoDigests)
    IN  [md5 |-> Normalize(r.md5), sha1 |-> Normalize(r.sha1), sha256 |-> Normalize(r.sha256)]

\* a getSignature that parses whatever the tool printed although Run failed
getSignatureIgnoringRunError(apkPath, toolPath, t) ==
    IF apkPath = <<>> \/ toolPath = "" THEN NoDigests ELSE ParseDigests(t.out)

\* t.run is how keytoolCmd.Run() ended, t.out what the command wrote to Stdout
getSignature(apkPath, toolPath, t) ==
    IF apkPath = <<>> \/ toolPath = "" THEN NoDigests
    ELSE IF t.run # "ok" THEN NoDigests
    ELSE ParseDigests(t.out)

(***************************************************************************)
(* The manifest: androidManifest (39-52), parseAndroidManifest (150-176),  *)
(* parseApkFile (126-147).                                                 *)
(***************************************************************************)
RECURSIVE NamesOfTag(_, _)
NamesOfTag(children, tag) ==
    IF children = <<>> THEN <<>>
    ELSE IF Head(children).tag = tag
         THEN <<Head(children).name>> \o NamesOfTag(Tail(children), tag)
         ELSE NamesOfTag(Tail(children), tag)

RECURSIVE NamesOfTagSuffix(_)
NamesOfTagSuffix(children) ==
    IF children = <<>> THEN <<>>
    ELSE IF Head(children).tag \in {"uses-permission", "permission"}
         THEN <<Head(children).name>> \o NamesOfTagSuffix(Tail(children))
         ELSE NamesOfTagSuffix(Tail(children))

\* a decoding that takes every element whose tag ends in "permission" for a uses-permission
DecodeManifestAnyPermission(d) ==
    [Package        |-> d.package,
     VersionName    |-> d.versionName,
     VersionCode    |-> d.versionCode,
     UsesPermission |-> NamesOfTagSuffix(d.children),
     Permission     |-> NamesOfTag(d.children, "permission")]

\* decoder.Decode(manifest) into the struct of lines 39-52: the root's attributes by
\* name, and the name attribute of each child element, collected by the child's tag
DecodeManifest(d) ==
    [Package        |-> d.package,
     VersionName    |-> d.versionName,
     VersionCode    |-> d.versionCode,
     UsesPermission |-> NamesOfTag(d.children, "uses-permission"),
     Permission     |-> NamesOfTag(d.children, "permission")]

\* new(AppInfo)
ZeroInfo ==
    [Name |-> "", BundleId |-> "", Version |-> <<>>, Build |-> 0, Icon |-> Nil, Size |-> 0,
     SignatureMd5 |-> <<>>, SignatureSha1 |-> <<>>, SignatureSha256 |-> <<>>,
     Md5 |-> "", UsesPermission |-> <<>>, SupportOS64 |-> FALSE, SupportOS32 |-> FALSE]

\* lines 143-145: append each permission's name
RECURSIVE AppendNames(_, _)
AppendNames(list, ups) ==
    IF ups = <<>> THEN list ELSE AppendNames(Append(list, Head(ups)), Tail(ups))

\* a parseApkFile that takes the build number from the wrong attribute
ManifestToInfoWrongAttr(manifest) ==
    [ZeroInfo EXCEPT !.BundleId = manifest.Package,
                     !.Version = manifest.VersionName,
                     !.Build = Atoi(manifest.VersionName),
                     !.UsesPermission = AppendNames(<<>>, manifest.UsesPermission)]

\* lines 136-146 of parseApkFile
ManifestToInfo(manifest) ==
    [ZeroInfo EXCEPT !.BundleId = manifest.Package,
                     !.Version = manifest.VersionName,
                     !.Build = Atoi(manifest.VersionCode),
                     !.UsesPermission = AppendNames(<<>>, manifest.UsesPermission)]

(***************************************************************************)
(* The archive scan (81-95) and the architecture flags (100-107).          *)
(***************************************************************************)
IsSo(f) == HasSuffix(f, SoSuffix)

Is64(f) == HasPrefix(f, Lib64Prefix)

\* a 32-bit test with the prefix cut too short: it matches every lib/arm... directory
Is32AnyArm(f) == HasPrefix(f, SubSeq(Lib32Prefix, 1, 7))

Is32(f) == HasPrefix(f, Lib32Prefix)

\* flags that are always the two prefix results, without the no-native-code default
SupportFlagsNoDefault(so, s64, s32) == [os64 |-> s64, os32 |-> s32]

SupportFlags(so, s64, s32) ==
    IF so = FALSE /\ s64 = FALSE /\ s32 = FALSE
    THEN [os64 |-> TRUE, os32 |-> TRUE]
    ELSE [os64 |-> s64, os32 |-> s32]

\* line 66
IsApk(statName) == Ext(statName) = androidExt

\* a close that runs on the successful return only
DeferredCloseOnSuccess(h, e) == IF e = NoErr THEN h \ {"file"} ELSE h

\* lines 59-61: the deferred file.Close() runs on every return after the open
DeferredClose(h, e) == h \ {"file"}

(***************************************************************************)
(* NewAppParser (54-123), one action per step.                             *)
(***************************************************************************)
\* a return after the open: the result, and the deferred file.Close()
Return(h, r, e) ==
    /\ pc' = "done"
    /\ ret' = [info |-> r, err |-> e]
    /\ handles' = DeferredClose(h, e)

\* lines 55-61: os.Open
OsOpen ==
    /\ pc = "start"
    /\ steps' = steps \cup {"open"}
    /\ IF fs.open
       THEN /\ handles' = handles \cup {"file"}
            /\ pc' = "stat"
            /\ ret' = ret
       ELSE /\ pc' = "done"
            /\ ret' = [info |-> Nil, err |-> "open error"]
            /\ handles' = handles
    /\ UNCHANGED <<inputs, locals, i, info, icon, label>>

\* lines 63-68: file.Stat and the extension test
StatExt ==
    /\ pc = "stat"
    /\ steps' = steps \cup {"stat"}
    /\ IF ~fs.stat
       THEN Return(handles, Nil, "stat error")
       ELSE IF ~IsApk(BaseName(name))
       THEN Return(handles, Nil, ErrUnknownPlatform)
       ELSE pc' = "zip" /\ UNCHANGED <<ret, handles>>
    /\ UNCHANGED <<inputs, locals, i, info, icon, label>>

\* lines 70-73: zip.NewReader
ZipNewReader ==
    /\ pc = "zip"
    /\ steps' = steps \cup {"zip"}
    /\ IF ~fs.zip
       THEN Return(handles, Nil, "zip error") /\ i' = i
       ELSE pc' = "scan" /\ i' = 1 /\ UNCHANGED <<ret, handles>>
    /\ UNCHANGED <<inputs, locals, info, icon, label>>

\* lines 81-95: one iteration of the loop over reader.File
ScanEntry ==
    /\ pc = "scan"
    /\ i <= Len(entries)
    /\ LET f == entries[i]
       IN  /\ xmlFile' = IF f = ManifestName THEN i ELSE xmlFile
           /\ hasSoFile' = IF IsSo(f) THEN TRUE ELSE hasSoFile
           /\ supportOS64' = IF Is64(f) THEN TRUE ELSE supportOS64
           /\ supportOS32' = IF Is32(f) THEN TRUE ELSE supportOS32
    /\ i' = i + 1
    /\ steps' = steps \cup {"scan"}
    /\ UNCHANGED <<inputs, pc, info, icon, label, handles, ret>>

\* line 96, parseApkFile 127-131, parseAndroidManifest 151-157: the manifest entry
\* is looked up and opened
ParseApkFile ==
    /\ pc = "scan"
    /\ i > Len(entries)
    /\ steps' = steps \cup {"parse"}
    /\ IF xmlFile = 0
       THEN Return(handles, Nil, ErrNoManifest)
       ELSE IF doc.stage = "open error"
       THEN Return(handles, Nil, doc.stage)
       ELSE /\ handles' = handles \cup {"rc"}
            /\ pc' = "manifest"
            /\ ret' = ret
    /\ UNCHANGED <<inputs, locals, i, info, icon, label>>

\* parseAndroidManifest 159-175, parseApkFile 132-146, lines 97-99: the entry is read,
\* transcoded and decoded; the deferred rc.Close() runs as parseAndroidManifest returns
ParseAndroidManifest ==
    /\ pc = "manifest"
    /\ steps' = steps \cup {"manifest"}
    /\ IF doc.stage # "ok"
       THEN Return(handles \ {"rc"}, Nil, doc.stage) /\ info' = info
       ELSE /\ info' = ManifestToInfo(DecodeManifest(doc))
            /\ handles' = handles \ {"rc"}
            /\ pc' = "support"
            /\ ret' = ret
    /\ UNCHANGED <<inputs, locals, i, icon, label>>

\* lines 100-109: the architecture flags and the archive's md5
SetSupport ==
    /\ pc = "support"
    /\ steps' = steps \cup {"support", "md5"}
    /\ LET fl == SupportFlags(hasSoFile, supportOS64, supportOS32)
       IN  info' = [info EXCEPT !.SupportOS64 = fl.os64, !.SupportOS32 = fl.os32,
                                !.Md5 = fs.md5]
    /\ pc' = "signature"
    /\ UNCHANGED <<inputs, locals, i, icon, label, handles, ret>>

\* line 110
GetSignature ==
    /\ pc = "signature"
    /\ steps' = steps \cup {"signature"}
    /\ LET d == getSignature(name, keyToolPath, tool)
       IN  info' = [info EXCEPT !.SignatureMd5 = d.md5, !.SignatureSha1 = d.sha1,
                                !.SignatureSha256 = d.sha256]
    /\ pc' = "extra"
    /\ UNCHANGED <<inputs, locals, i, icon, label, handles, ret>>

\* line 112, parseApkIconAndLabel 180-186, lines 113-115: the resource package is opened
OpenResources ==
    /\ pc = "extra"
    /\ steps' = steps \cup {"openFile"}
    /\ IF ~res.open
       THEN Return(handles, Nil, "resource error")
       ELSE /\ handles' = handles \cup {"pkg"}
            /\ pc' = "resolve"
            /\ ret' = ret
    /\ UNCHANGED <<inputs, locals, i, info, icon, label>>

\* parseApkIconAndLabel 188-194: the icon and the label are resolved, their errors
\* dropped, and the deferred pkg.close() runs
ResolveIconAndLabel ==
    /\ pc = "resolve"
    /\ steps' = steps \cup {"icon", "label"}
    /\ icon' = res.icon
    /\ label' = res.label
    /\ handles' = handles \ {"pkg"}
    /\ pc' = "assemble"
    /\ UNCHANGED <<inputs, locals, i, info, ret>>

\* lines 116-122
Finish ==
    /\ pc = "assemble"
    /\ steps' = steps \cup {"finish"}
    /\ info' = [info EXCEPT !.Name = label,
                            !.Icon = IF isIcon THEN icon ELSE info.Icon,
                            !.Size = fs.size]
    /\ Return(handles, info', NoErr)
    /\ UNCHANGED <<inputs, locals, i, icon, label>>

Next ==
    \/ OsOpen
    \/ StatExt
    \/ ZipNewReader
    \/ ScanEntry
    \/ ParseApkFile
    \/ ParseAndroidManifest
    \/ SetSupport
    \/ GetSignature
    \/ OpenResources
    \/ ResolveIconAndLabel
    \/ Finish

(***************************************************************************)
(* The inputs the runs are started on.                                     *)
(***************************************************************************)
SeqsUpTo(S, n) == UNION {[1..k -> S] : k \in 0..n}

PathPool ==
    { <<"a",".","a","p","k">>,
      <<"a",".","z","i","p">>,
      <<"a","p","k">>,
      <<"x","a","p","k">>,
      <<"d",".","a","p","k","/","a",".","t","x","t">>,
      <<"a",".","A","P","K">>,
      <<"d",".","x","/","b",".","a","p","k">>,
      <<"a",".","a","p","k",".","b","a","k">>,
      <<".","a","p","k">> }

EntryPool ==
    { <<"A","n","d","r","o","i","d","M","a","n","i","f","e","s","t",".","x","m","l">>,
      <<"l","i","b","/","a","r","m","6","4","-","v","8","a","/","l","i","b","x",".","s","o">>,
      <<"l","i","b","/","a","r","m","e","a","b","i","-","v","7","a","/","l","i","b","x",".","s","o">>,
      <<"l","i","b","/","x","8","6","/","l","i","b","z",".","s","o">>,
      <<"l","i","b","/","a","r","m","6","4","-","v","8","a","/","w","r","a","p",".","s","h">>,
      <<"c","l","a","s","s","e","s",".","d","e","x">>,
      <<"a","s","s","e","t","s","/","q",".","s","o">> }

\* strconv.Itoa for n >= 0, written here to build version codes from their values
RECURSIVE Itoa(_)
Itoa(n) == IF n < 10 THEN <<Digits[n + 1]>> ELSE Itoa(n \div 10) \o <<Digits[(n % 10) + 1]>>

\* version codes that are decimal numbers, and some that are not
CodePool ==
    {Itoa(n) : n \in 0..MaxCode} \cup {<<"-">> \o Itoa(n) : n \in 1..2}
        \cup { <<>>,
      <<"+","4","5">>,
      <<"0","0","7">>,
      <<"4","a">>,
      <<"-">>,
      <<"1",".","5">> }

ChildPool ==
    [tag : {"uses-permission"},
     name : {"android.permission.CAMERA", "android.permission.INTERNET", ""}]
        \cup {[tag |-> "permission", name |-> "com.example.app.PUSH"],
              [tag |-> "application", name |-> "com.example.app.App"]}

FsOk == [open |-> TRUE, stat |-> TRUE, zip |-> TRUE, size |-> 4096, md5 |-> "0cc175b9"]

FsPool ==
    {FsOk, [FsOk EXCEPT !.open = FALSE], [FsOk EXCEPT !.stat = FALSE],
     [FsOk EXCEPT !.zip = FALSE], [FsOk EXCEPT !.md5 = ""]}

DocOk ==
    [stage |-> "ok", package |-> "com.example.app", versionName |-> <<"1",".","2",".","3">>,
     versionCode |-> <<"4","5">>,
     children |-> <<[tag |-> "uses-permission", name |-> "android.permission.CAMERA"],
                    [tag |-> "application", name |-> "com.example.app.App"],
                    [tag |-> "uses-permission", name |-> "android.permission.INTERNET"]>>]

DocFailures ==
    {[DocOk EXCEPT !.stage = st] : st \in {"open error", "read error", "xml error", "decode error"}}

Image == [img |-> "ic_launcher"]

ResOk == [open |-> TRUE, icon |-> Image, label |-> "Example"]

\* openFile fails; or it succeeds and icon() and label() each succeed or fail
ResPool ==
    {[ResOk EXCEPT !.open = FALSE]}
        \cup [open : {TRUE}, icon : {Image, Nil}, label : {"Example", ""}]

\* what is left after the label on a line of the tool's output
BodyChars == {"A", "b", "1", ":", " ", "\t", "\r"}

LinePrefixes == {<<>>, <<"\t", " ">>}

LineLabels == {LabelMD5, LabelSHA1, LabelSHA256, <<"O", "w", "n", "e", "r", ":">>}

\* a listing as keytool -printcert prints it
Listing ==
    <<"O","w","n","e","r",":"," ","C","N","=","a","\n","\t"," ","M","D","5",":"," "," ","A","B",":","C","D",":","E","F",":","0","1","\n","\t"," ","S","H","A","1",":"," ","5","B",":","3","C","\n","\t"," ","S","H","A","2","5","6",":"," ","F","A",":","C","E","\n","V","e","r","s","i","o","n",":"," ","3","\n">>

\* a line of the listing is written "\t MD5:  AB:CD"; two full listings besides
OutputPool ==
    {pre \o lab \o <<" ">> \o body :
        pre \in LinePrefixes, lab \in LineLabels, body \in SeqsUpTo(BodyChars, MaxBody)}
        \cup { Listing,
      <<"\t"," ","S","H","A","1",":"," ","0","A",":","1","b","\r","\n","\t"," ","S","H","A","2","5","6",":"," ","C","3",":","d","4","\r","\n">>,
      <<>> }

ToolOk == [run |-> "ok", out |-> Listing]

ToolRuns == {"ok", "not found", "exit status 1"}

EntriesFew ==
    {<<>>, <<ManifestName>>, <<ManifestName, <<"l","i","b","/","a","r","m","6","4","-","v","8","a","/","l","i","b","x",".","s","o">>>>, <<<<"l","i","b","/","a","r","m","e","a","b","i","-","v","7","a","/","l","i","b","x",".","s","o">>, ManifestName>>}

TypeOK ==
    /\ pc \in {"start", "stat", "zip", "scan", "manifest", "support", "signature",
               "extra", "resolve", "assemble", "done"}
    /\ handles \subseteq {"file", "rc", "pkg"}
    /\ isIcon \in BOOLEAN

InitOver(Paths, KeyPaths, Icons, Fss, Entr, Docs, Tools, Ress) ==
    /\ name \in Paths
    /\ keyToolPath \in KeyPaths
    /\ isIcon \in Icons
    /\ fs \in Fss
    /\ entries \in Entr
    /\ doc \in Docs
    /\ tool \in Tools
    /\ res \in Ress
    /\ pc = "start"
    /\ i = 0
    /\ xmlFile = 0
    /\ supportOS64 = FALSE
    /\ supportOS32 = FALSE
    /\ hasSoFile = FALSE
    /\ info = Nil
    /\ icon = Nil
    /\ label = ""
    /\ handles = {}
    /\ ret = [info |-> Nil, err |-> NoErr]
    /\ steps = {}

\* every failure of every step, on a few archives
Init ==
    InitOver(PathPool, {"", "keytool"}, BOOLEAN, FsPool, EntriesFew,
             {DocOk} \cup DocFailures, [run : ToolRuns, out : {Listing}], ResPool)

Spec == Init /\ [][Next]_vars

\* every archive directory of up to MaxEntries entries
InitArch ==
    InitOver({<<"a",".","a","p","k">>, <<"a",".","z","i","p">>}, {"keytool"}, {TRUE}, {FsOk, [FsOk EXCEPT !.zip = FALSE]},
             SeqsUpTo(EntryPool, MaxEntries),
             {DocOk, [DocOk EXCEPT !.stage = "xml error"]}, {ToolOk},
             {ResOk, [ResOk EXCEPT !.open = FALSE]})

SpecArch == InitArch /\ [][Next]_vars

\* every version code, with the other steps succeeding and failing
InitVersion ==
    InitOver({<<"a",".","a","p","k">>, <<"a",".","z","i","p">>}, {"", "keytool"}, BOOLEAN, {FsOk, [FsOk EXCEPT !.md5 = ""]},
             {<<ManifestName>>, <<<<"c","l","a","s","s","e","s",".","d","e","x">>>>},
             [stage : {"ok", "decode error"}, package : {"com.example.app", ""},
              versionName : {<<"1",".","2",".","3">>, <<"7">>, <<>>}, versionCode : CodePool,
              children : {<<>>, DocOk.children}],
             [run : {"ok", "exit status 1"}, out : {Listing}], ResPool)

SpecVersion == InitVersion /\ [][Next]_vars

\* every manifest of up to MaxPerms child elements
InitPerms ==
    InitOver({<<"a",".","a","p","k">>, <<"a",".","z","i","p">>}, {"keytool"}, {FALSE}, {FsOk},
             {<<ManifestName>>, <<<<"c","l","a","s","s","e","s",".","d","e","x">>>>},
             [stage : {"ok", "read error"}, package : {"com.example.app"},
              versionName : {<<"1",".","2",".","3">>}, versionCode : {<<"4", "5">>},
              children : SeqsUpTo(ChildPool, MaxPerms)],
             {ToolOk}, {ResOk, [ResOk EXCEPT !.open = FALSE]})

SpecPerms == InitPerms /\ [][Next]_vars

\* every output of the certificate tool, however the run of the tool ends
InitSig ==
    InitOver({<<"a",".","a","p","k">>}, {"", "keytool"}, {TRUE}, {FsOk},
             {<<ManifestName, <<"l","i","b","/","a","r","m","6","4","-","v","8","a","/","l","i","b","x",".","s","o">>>>},
             {DocOk, [DocOk EXCEPT !.stage = "open error"]},
             [run : ToolRuns, out : OutputPool],
             {ResOk, [ResOk EXCEPT !.open = FALSE]})

SpecSig == InitSig /\ [][Next]_vars

(***************************************************************************)
(* Properties.                                                             *)
(***************************************************************************)
Succeeded == pc = "done" /\ ret.err = NoErr

\* an entry the scan takes for native code: a .so file, or anything under one of the
\* two ABI directory prefixes
NativeCodeEntry(f) ==
    \/ HasSuffix(f, SoSuffix)
    \/ HasPrefix(f, Lib64Prefix)
    \/ HasPrefix(f, Lib32Prefix)

NoNativeCode == \A k \in 1..Len(entries) : ~NativeCodeEntry(entries[k])

Under64 == \E k \in 1..Len(entries) : HasPrefix(entries[k], Lib64Prefix)

Under32 == \E k \in 1..Len(entries) : HasPrefix(entries[k], Lib32Prefix)

\* C1: when the archive holds no native-code entry, a successful NewAppParser returns
\* a record with SupportOS64 and SupportOS32 both true.
C1_NoNativeBothSupported ==
    (Succeeded /\ NoNativeCode) => (ret.info.SupportOS64 /\ ret.info.SupportOS32)

C1_Witness ==
    /\ Succeeded
    /\ NoNativeCode
    /\ Len(entries) >= 2
    /\ ret.info.SupportOS64
    /\ ret.info.SupportOS32

\* C2: when the archive holds a native-code entry, SupportOS64 is true exactly when
\* some entry lies under lib/arm64-v8a and SupportOS32 exactly when some entry lies
\* under lib/armeabi; neither flag depends on the other prefix.
C2_FlagsFollowPrefixes ==
    (Succeeded /\ ~NoNativeCode) =>
        /\ ret.info.SupportOS64 <=> Under64
        /\ ret.info.SupportOS32 <=> Under32

C2_Witness ==
    /\ Succeeded
    /\ Under64
    /\ ~Under32
    /\ ret.info.SupportOS64
    /\ ~ret.info.SupportOS32

NotApkPath == Ext(BaseName(name)) # androidExt

\* C3: a path without the .apk extension fails with "unknown platform" and no
\* record, and the extension check comes before anything is opened: the bundle file
\* is not open, and the archive reader is never constructed.
C3_CheckedBeforeAnyOpen ==
    NotApkPath =>
        /\ "file" \notin handles
        /\ "zip" \notin steps
        /\ pc = "done" => (ret.err = ErrUnknownPlatform /\ ret.info = Nil)

\* C4: a successful extraction yields BundleId = package, Version = versionName and
\* Build = the integer that versionCode writes in decimal, whatever the label/icon,
\* hash and signature steps did.
C4_ManifestAttributes ==
    Succeeded =>
        /\ ret.info.BundleId = doc.package
        /\ ret.info.Version = doc.versionName
        /\ \A n \in 0..MaxCode : doc.versionCode = Itoa(n) => ret.info.Build = n
        /\ \A n \in 1..2 : doc.versionCode = <<"-">> \o Itoa(n) => ret.info.Build = 0 - n

C4_Witness ==
    /\ Succeeded
    /\ doc.versionCode = Itoa(10)
    /\ ret.info.Build = 10
    /\ ret.info.BundleId = "com.example.app"
    /\ ret.info.Version = <<"1",".","2",".","3">>
    /\ tool.run # "ok"
    /\ res.icon = Nil
    /\ res.label = ""
    /\ fs.md5 = ""

\* the positions of the manifest's uses-permission elements
UsesPermissionAt == {k \in 1..Len(doc.children) : doc.children[k].tag = "uses-permission"}

NthOf(S, j) == CHOOSE k \in S : Cardinality({m \in S : m < k}) = j - 1

\* C5: UsesPermission is the sequence of the name attributes of the manifest's
\* uses-permission elements, in declaration order, duplicates kept, nothing added
\* and nothing dropped.
C5_PermissionsInOrder ==
    Succeeded =>
        /\ Len(ret.info.UsesPermission) = Cardinality(UsesPermissionAt)
        /\ \A j \in 1..Len(ret.info.UsesPermission) :
              ret.info.UsesPermission[j] = doc.children[NthOf(UsesPermissionAt, j)].name

C5_Witness ==
    /\ Succeeded
    /\ Len(doc.children) = 3
    /\ doc.children[2].tag = "permission"
    /\ ret.info.UsesPermission = <<"android.permission.INTERNET", "android.permission.INTERNET">>

WhitespaceChars == {" ", "\t", "\r", "\n"}

CleanDigest(d) ==
    \A k \in 1..Len(d) :
        /\ d[k] \notin WhitespaceChars
        /\ d[k] # ":"
        /\ \A u \in 1..26 : d[k] # UpperLetters[u]

\* C6: a digest returned by getSignature is the text after its label with all
\* whitespace and all colons stripped and every letter lower-cased: it contains no
\* whitespace character, no colon and no upper-case letter.
C6_DigestNormalized ==
    (Succeeded /\ keyToolPath # "" /\ tool.run = "ok") =>
        /\ CleanDigest(ret.info.SignatureMd5)
        /\ CleanDigest(ret.info.SignatureSha1)
        /\ CleanDigest(ret.info.SignatureSha256)

ToolFailed == keyToolPath = "" \/ tool.run # "ok"

\* whether every step but the certificate tool succeeds on these inputs
OtherStepsSucceed ==
    /\ fs.open
    /\ fs.stat
    /\ ~NotApkPath
    /\ fs.zip
    /\ \E k \in 1..Len(entries) : entries[k] = ManifestName
    /\ doc.stage = "ok"
    /\ res.open

\* C7: a missing or failing certificate tool never makes NewAppParser fail: the record
\* is returned whenever the other steps succeed, with the three signature digests
\* empty and every other field as the other steps give it.
C7_ToolFailureNotFatal ==
    (pc = "done" /\ ToolFailed) =>
        /\ ret.err = NoErr <=> OtherStepsSucceed
        /\ ret.err = NoErr =>
            /\ ret.info.SignatureMd5 = <<>>
            /\ ret.info.SignatureSha1 = <<>>
            /\ ret.info.SignatureSha256 = <<>>
            /\ ret.info.Name = res.label
            /\ ret.info.BundleId = doc.package
            /\ ret.info.Version = doc.versionName
            /\ ret.info.Icon = (IF isIcon THEN res.icon ELSE Nil)
            /\ ret.info.Size = fs.size
            /\ ret.info.Md5 = fs.md5
            /\ ret.info.SupportOS64 <=> (NoNativeCode \/ Under64)
            /\ ret.info.SupportOS32 <=> (NoNativeCode \/ Under32)
            /\ Len(ret.info.UsesPermission) = Cardinality(UsesPermissionAt)

C7_Witness ==
    /\ Succeeded
    /\ keyToolPath = "keytool"
    /\ tool.run = "exit status 1"
    /\ Contains(tool.out, LabelSHA1)
    /\ ret.info.SignatureSha1 = <<>>
    /\ ret.info.BundleId = "com.example.app"

\* C8: once the manifest has been parsed, no failure of the label/icon step makes
\* NewAppParser return an error: the record is still returned.
C8_ResourceFailureNotFatal ==
    (pc = "done" /\ "support" \in steps) => (ret.err = NoErr /\ ret.info # Nil)

\* C9: with the icon flag false the icon resolution step is never executed and the
\* returned record's Icon is absent.
C9_IconOnlyOnRequest ==
    ~isIcon =>
        /\ "icon" \notin steps
        /\ Succeeded => ret.info.Icon = Nil

\* C10: in every terminal state of NewAppParser, a record or any error, no handle
\* acquired by the run is still open.
C10_HandlesReleased == pc = "done" => handles = {}

C10_Witness ==
    /\ pc = "done"
    /\ ret.err = "decode error"
    /\ {"open", "manifest"} \subseteq steps
    /\ handles = {}

====
